---- MODULE Spec2Model ----
(***************************************************************************)
(* A model of src/daemon/main.cpp: the entry point of the daemon.  One     *)
(* invocation of main is a sequence of steps over a variables map (vm),    *)
(* the logging state, the control channel and, on a WIN32 build, the       *)
(* service registry, which persists from one invocation to the next.       *)
(***************************************************************************)
EXTENDS Integers, Sequences, FiniteSets, TLC

VARIABLES
  build,        \* "WIN32" or "POSIX": whether WIN32 was defined at compile time
  cfgFile,      \* the configuration file on disk (persists across invocations)
  registry,     \* the platform service registry (persists across invocations)
  argv,         \* argv[1..argc-1] of the running invocation
  relaunched,   \* TRUE when the service manager launched this invocation
  pc,           \* position of the running process inside main
  vm,           \* po::variables_map vm
  exitCode,     \* <<the value main returned>>; <<>> while it runs
  role,         \* "main", or "child" after posix::fork
  parent,       \* what became of the forking parent process
  dataDirMade,  \* create_directories_if_necessary was called
  cfgRead,      \* the configuration file was parsed
  client,       \* a t_command_server was constructed
  sent,         \* the command vectors handed to process_command_vec
  accepted,     \* what the control channel answered
  logLevel,     \* epee's log detalisation level
  levelSet,     \* get_set_log_detalisation_level(true, ...) was called
  sinks,        \* the loggers attached with add_logger, in order
  install,      \* bool install of main
  start,        \* bool start of main
  svcCalls,     \* the windows:: service calls made by this process, in order
  runs,         \* how the daemon was run by this process, in order
  runCfg,       \* the vm the daemon was constructed from
  runStatus,    \* how the daemon's run ended
  thrown,       \* an exception was raised inside the try block
  trace         \* the steps of main taken so far

vars == <<build, cfgFile, registry, argv, relaunched, pc, vm, exitCode, role,
          parent, dataDirMade, cfgRead, client, sent, accepted, logLevel,
          levelSet, sinks, install, start, svcCalls, runs, runCfg, runStatus,
          thrown, trace>>

(***************************************************************************)
(* Bounds and program constants                                            *)
(***************************************************************************)
MaxArgs == 2

LOG_LEVEL_0 == 0
LOG_LEVEL_MIN == -1
LOG_LEVEL_MAX == 4

WINDOWS_SERVICE_NAME == "BitMonero Daemon"

(***************************************************************************)
(* Strings.  A string is a sequence of pieces; SP is the space character.  *)
(***************************************************************************)
SP == " "

\* The command-line arguments the model draws argv from, in a fixed order.
ArgPool ==
  << <<"--help">>, <<"--os-version">>, <<"--detach">>, <<"--run-as-service">>,
     <<"--log-level=2">>, <<"--log-level=5">>, <<"--log-level=abc">>,
     <<"--log-file=b.log">>, <<"--log-file=/missing/b.log">>,
     <<"--log-file=/my", SP, "dir/b.log">>,
     <<"--rpc-bind-ip=300.0.0.1">>, <<"--rpc-bind-port=65536">>,
     <<"status">> >>

RECURSIVE PickArgs(_, _)
\* The arguments of ArgPool at the positions in S, from position i on, in order.
PickArgs(S, i) ==
  IF i > Len(ArgPool) THEN <<>>
  ELSE (IF i \in S THEN <<ArgPool[i]>> ELSE <<>>) \o PickArgs(S, i + 1)

Argvs ==
  { PickArgs(S, 1) : S \in { T \in SUBSET (1..Len(ArgPool)) : Cardinality(T) <= MaxArgs } }

\* std::string get_argument_string(int argc, char const * argv[])
RECURSIVE get_argument_string(_)
get_argument_string(args) ==
  IF args = <<>> THEN <<>>
  ELSE get_argument_string(SubSeq(args, 1, Len(args) - 1)) \o <<SP>> \o args[Len(args)]

RECURSIVE SplitCommandLine(_, _)
\* The service manager starts the executable with the registered argument
\* string, which the C runtime splits at spaces into argv.
SplitCommandLine(str, cur) ==
  IF str = <<>> THEN (IF cur = <<>> THEN <<>> ELSE <<cur>>)
  ELSE IF Head(str) = SP
       THEN (IF cur = <<>> THEN <<>> ELSE <<cur>>) \o SplitCommandLine(Tail(str), <<>>)
       ELSE SplitCommandLine(Tail(str), Append(cur, Head(str)))

(***************************************************************************)
(* Options                                                                 *)
(***************************************************************************)
\* core_settings: log-file, log-level and t_daemon::init_options
CoreSettings == {"log-file", "log-level", "rpc-bind-ip", "rpc-bind-port"}
\* visible_options: help, system queries, data-dir, config-file, detach + core_settings
VisibleOptions == {"help", "os-version", "data-dir", "config-file", "detach"} \cup CoreSettings
\* all_options: the hidden options + visible_options
AllOptions ==
  {"daemon_command"} \cup (IF build = "WIN32" THEN {"run-as-service"} ELSE {}) \cup VisibleOptions
Keys == {"daemon_command", "run-as-service"} \cup VisibleOptions

IntStrings == {"-2", "0", "2", "3", "5"}
\* boost::lexical_cast<int>
IntOf(s) ==
  CASE s = "-2" -> -2 [] s = "0" -> 0 [] s = "2" -> 2 [] s = "3" -> 3 [] s = "5" -> 5

\* Whether the text converts to the option's declared type.
WellTyped(key, val) == key = "log-level" => val \in IntStrings

\* The declared defaults; <<>> for an option declared without one.
DefaultOf(key) ==
  CASE key = "data-dir" -> <<"/data">>
    [] key = "config-file" -> <<"bitmonero.conf">>
    [] key = "log-file" -> <<"bitmonero.log">>
    [] key = "log-level" -> <<"0">>
    [] key = "rpc-bind-ip" -> <<"127.0.0.1">>
    [] key = "rpc-bind-port" -> <<"18081">>
    [] OTHER -> <<>>

\* What the option parser makes of one command-line argument: an option and
\* its value, or a positional token, collected under daemon_command.
Meaning(arg) ==
  CASE arg = <<"--help">> -> [key |-> "help", val |-> "1"]
    [] arg = <<"--os-version">> -> [key |-> "os-version", val |-> "1"]
    [] arg = <<"--detach">> -> [key |-> "detach", val |-> "1"]
    [] arg = <<"--run-as-service">> -> [key |-> "run-as-service", val |-> "1"]
    [] arg = <<"--log-level=2">> -> [key |-> "log-level", val |-> "2"]
    [] arg = <<"--log-level=5">> -> [key |-> "log-level", val |-> "5"]
    [] arg = <<"--log-level=abc">> -> [key |-> "log-level", val |-> "abc"]
    [] arg = <<"--log-file=b.log">> -> [key |-> "log-file", val |-> "b.log"]
    [] arg = <<"--log-file=/missing/b.log">> -> [key |-> "log-file", val |-> "/missing/b.log"]
    [] arg = <<"--log-file=/my", SP, "dir/b.log">> -> [key |-> "log-file", val |-> "/my dir/b.log"]
    [] arg = <<"--log-file=/my">> -> [key |-> "log-file", val |-> "/my"]
    [] arg = <<"--rpc-bind-ip=300.0.0.1">> -> [key |-> "rpc-bind-ip", val |-> "300.0.0.1"]
    [] arg = <<"--rpc-bind-port=65536">> -> [key |-> "rpc-bind-port", val |-> "65536"]
    [] OTHER -> [key |-> "daemon_command", val |-> arg[1]]

RECURSIVE ValuesOf(_, _)
\* The values argv gives for key, in argv's order.
ValuesOf(args, key) ==
  IF args = <<>> THEN <<>>
  ELSE (IF Meaning(Head(args)).key = key THEN <<Meaning(Head(args)).val>> ELSE <<>>)
       \o ValuesOf(Tail(args), key)

\* Whether argv parses against all_options: every option is declared, every
\* value converts to the declared type, and only the positional option repeats.
ArgvParses(args) ==
  /\ \A i \in 1..Len(args) :
       /\ Meaning(args[i]).key \in AllOptions
       /\ WellTyped(Meaning(args[i]).key, Meaning(args[i]).val)
  /\ \A key \in Keys \ {"daemon_command"} : Len(ValuesOf(args, key)) <= 1

\* The variables map after the command line is stored: a value from argv is
\* final, a default is marked defaulted, an option without either is empty.
StoreCommandLine(args) ==
  [key \in Keys |->
     IF ValuesOf(args, key) # <<>>
     THEN [value |-> ValuesOf(args, key), defaulted |-> FALSE]
     ELSE [value |-> DefaultOf(key), defaulted |-> DefaultOf(key) # <<>>]]

\* command_line::arg_present
arg_present(map, key) == map[key].value # <<>> /\ ~map[key].defaulted
\* command_line::get_arg
get_arg(map, key) == map[key].value[1]

(***************************************************************************)
(* The configuration file                                                  *)
(***************************************************************************)
\* The files that may lie at <data-dir>/bitmonero.conf: none, one with a
\* syntax error, and files of key=value lines.
CfgFiles ==
  { [exists |-> FALSE, wellFormed |-> TRUE, lines |-> <<>>],
    [exists |-> TRUE, wellFormed |-> FALSE, lines |-> <<>>],
    [exists |-> TRUE, wellFormed |-> TRUE, lines |-> <<[key |-> "log-level", val |-> "3"]>>],
    [exists |-> TRUE, wellFormed |-> TRUE, lines |-> <<[key |-> "log-level", val |-> "-2"]>>],
    [exists |-> TRUE, wellFormed |-> TRUE, lines |-> <<[key |-> "log-file", val |-> "a.log"]>>],
    [exists |-> TRUE, wellFormed |-> TRUE, lines |-> <<[key |-> "detach", val |-> "1"]>>] }

\* Whether the file names key, and the value it gives
FileSets(file, key) == \E i \in 1..Len(file.lines) : file.lines[i].key = key
FileValue(file, key) ==
  file.lines[CHOOSE i \in 1..Len(file.lines) : file.lines[i].key = key].val

\* po::parse_config_file<char>(path, core_settings) throws on a syntax error,
\* on a key core_settings does not declare and on a value of the wrong type.
ConfigFileParses(file) ==
  /\ file.wellFormed
  /\ \A i \in 1..Len(file.lines) :
       /\ file.lines[i].key \in CoreSettings
       /\ WellTyped(file.lines[i].key, file.lines[i].val)

\* StoreConfigFile, had the file's values replaced those of the command line
StoreConfigFileOverriding(map, file) ==
  [key \in Keys |->
     IF FileSets(file, key)
     THEN [value |-> <<FileValue(file, key)>>, defaulted |-> FALSE]
     ELSE map[key]]

\* po::store(parsed, vm): a value of the file is stored unless vm already
\* holds a value that is not a default.
StoreConfigFile(map, file) ==
  [key \in Keys |->
     IF FileSets(file, key) /\ (map[key].value = <<>> \/ map[key].defaulted)
     THEN [value |-> <<FileValue(file, key)>>, defaulted |-> FALSE]
     ELSE map[key]]

(***************************************************************************)
(* The control-channel address                                             *)
(***************************************************************************)
\* The dotted fields of an address text, as numbers
IpFields(s) ==
  CASE s = "127.0.0.1" -> <<127, 0, 0, 1>>
    [] s = "300.0.0.1" -> <<300, 0, 0, 1>>
\* epee::string_tools::get_ip_int32_from_string: four fields of one byte each
get_ip_int32_from_string(s) ==
  Len(IpFields(s)) = 4 /\ \A i \in 1..4 : IpFields(s)[i] \in 0..255
\* The number a port text denotes
PortNumber(s) ==
  CASE s = "18081" -> 18081
    [] s = "65536" -> 65536
\* epee::string_tools::get_xtype_from_string(uint16_t &, ...)
get_xtype_from_string(s) == PortNumber(s) \in 0..65535

(***************************************************************************)
(* Paths (boost::filesystem::path): a root flag and the components         *)
(***************************************************************************)
PathOf(s) ==
  CASE s = "/data" -> [abs |-> TRUE, parts |-> <<"data">>]
    [] s = "bitmonero.log" -> [abs |-> FALSE, parts |-> <<"bitmonero.log">>]
    [] s = "a.log" -> [abs |-> FALSE, parts |-> <<"a.log">>]
    [] s = "b.log" -> [abs |-> FALSE, parts |-> <<"b.log">>]
    [] s = "/missing/b.log" -> [abs |-> TRUE, parts |-> <<"missing", "b.log">>]
    [] s = "/my dir/b.log" -> [abs |-> TRUE, parts |-> <<"my dir", "b.log">>]
    [] s = "/my" -> [abs |-> TRUE, parts |-> <<"my">>]
is_relative(p) == ~p.abs
\* operator/ : an absolute right-hand side replaces the left
PathJoin(p, q) == IF q.abs THEN q ELSE [abs |-> p.abs, parts |-> p.parts \o q.parts]
has_parent_path(p) == Len(p.parts) > 1 \/ (p.abs /\ Len(p.parts) = 1)
parent_path(p) == [abs |-> p.abs, parts |-> SubSeq(p.parts, 1, Len(p.parts) - 1)]
filename(p) == p.parts[Len(p.parts)]
\* The directories on disk, besides the data directory main creates
RootDir == [abs |-> TRUE, parts |-> <<>>]
ModuleDir == [abs |-> TRUE, parts |-> <<"opt">>]
ExistingDirs(made) ==
  {RootDir, ModuleDir, [abs |-> TRUE, parts |-> <<"my dir">>]}
    \cup (IF made THEN {PathOf("/data")} ELSE {})
\* log_singletone::get_default_log_file: the module's name, without a folder
get_default_log_file == [abs |-> FALSE, parts |-> <<"bitmonerod.log">>]
\* log_singletone::get_default_log_folder: the module's folder
get_default_log_folder == ModuleDir

(***************************************************************************)
(* The state after construction                                            *)
(***************************************************************************)
EmptyMap == [key \in Keys |-> [value |-> <<>>, defaulted |-> FALSE]]
NoParent == [forked |-> FALSE, exitCode |-> <<>>, runs |-> <<>>, vm |-> EmptyMap, sinks |-> <<>>]
Unregistered == [registered |-> FALSE, args |-> <<>>, started |-> FALSE]
\* The level the logger holds before main sets one
InitialLevels == {LOG_LEVEL_0, LOG_LEVEL_0 + 1}

inVars == <<build, cfgFile, argv, relaunched>>
cfgVars == <<vm, dataDirMade, cfgRead>>
fwdVars == <<client, sent, accepted>>
logVars == <<logLevel, levelSet, sinks>>
svcVars == <<registry, install, start, svcCalls>>
runVars == <<runs, runCfg, runStatus>>
forkVars == <<role, parent>>

\* No process runs: the per-process state is blank.
Blank ==
  /\ argv = <<>>
  /\ relaunched = FALSE
  /\ vm = EmptyMap
  /\ exitCode = <<>>
  /\ role = "main"
  /\ parent = NoParent
  /\ dataDirMade = FALSE
  /\ cfgRead = FALSE
  /\ client = FALSE
  /\ sent = <<>>
  /\ accepted = "none"
  /\ logLevel = LOG_LEVEL_0
  /\ levelSet = FALSE
  /\ sinks = <<>>
  /\ install = FALSE
  /\ start = FALSE
  /\ svcCalls = <<>>
  /\ runs = <<>>
  /\ runCfg = EmptyMap
  /\ runStatus = "none"
  /\ thrown = FALSE
  /\ trace = <<>>

\* A build, a configuration file on disk, an empty service registry, and no
\* process yet.
Init ==
  /\ build \in {"WIN32", "POSIX"}
  /\ cfgFile \in CfgFiles
  /\ registry = Unregistered
  /\ pc = "idle"
  /\ Blank

\* return code;
Return(code) == pc' = "exited" /\ exitCode' = <<code>>
\* an exception leaves the try block for the handlers of lines 290-297
Throw == pc' = "catch" /\ thrown' = TRUE /\ exitCode' = exitCode
Goto(label) == pc' = label /\ exitCode' = exitCode
Step(name) == trace' = Append(trace, name)

(***************************************************************************)
(* main, lines 110-152: parsing and configuration                          *)
(***************************************************************************)
\* parse_options: return 1 when argv does not parse
ParseArgs ==
  /\ pc = "parse"
  /\ Step("ParseArgs")
  /\ IF ArgvParses(argv)
     THEN vm' = StoreCommandLine(argv) /\ Goto("help")
     ELSE vm' = vm /\ Return(1)
  /\ UNCHANGED <<inVars, dataDirMade, cfgRead, fwdVars, logVars, svcVars, runVars,
                 forkVars, thrown>>

\* PrintHelp, had it printed the usage and gone on
PrintHelpAndGoOn ==
  /\ pc = "help"
  /\ Step("PrintHelp")
  /\ Goto("query")
  /\ UNCHANGED <<inVars, cfgVars, fwdVars, logVars, svcVars, runVars, forkVars, thrown>>

\* print_help: return 0 when help was asked for
PrintHelp ==
  /\ pc = "help"
  /\ Step("PrintHelp")
  /\ IF arg_present(vm, "help") THEN Return(0) ELSE Goto("query")
  /\ UNCHANGED <<inVars, cfgVars, fwdVars, logVars, svcVars, runVars, forkVars, thrown>>

\* query_system_info: return 0 when a system query was asked for
QuerySystemInfo ==
  /\ pc = "query"
  /\ Step("QuerySystemInfo")
  /\ IF arg_present(vm, "os-version") THEN Return(0) ELSE Goto("datadir")
  /\ UNCHANGED <<inVars, cfgVars, fwdVars, logVars, svcVars, runVars, forkVars, thrown>>

\* tools::create_directories_if_necessary(data_dir)
CreateDataDir ==
  /\ pc = "datadir"
  /\ Step("CreateDataDir")
  /\ dataDirMade' = TRUE
  /\ Goto("config")
  /\ UNCHANGED <<inVars, vm, cfgRead, fwdVars, logVars, svcVars, runVars, forkVars, thrown>>

\* AfterConfig, had the daemon been launched before logging was set up
AfterConfigSkipLogging(map) == IF arg_present(map, "daemon_command") THEN "address" ELSE "mode"

\* AfterConfig, had the daemon been launched whatever the positional tokens
AfterConfigAlwaysDaemon(map) == "loglevel"

\* if (command_line::arg_present(vm, arg_command)): where main goes on
AfterConfig(map) == IF arg_present(map, "daemon_command") THEN "address" ELSE "loglevel"

\* ParseConfigFile, had a file that does not parse been passed over
ParseConfigFileLenient ==
  /\ pc = "config"
  /\ Step("ParseConfigFile")
  /\ vm' = IF cfgFile.exists /\ ConfigFileParses(cfgFile)
           THEN StoreConfigFile(vm, cfgFile)
           ELSE vm
  /\ cfgRead' = cfgFile.exists
  /\ Goto(AfterConfig(vm'))
  /\ UNCHANGED <<inVars, dataDirMade, fwdVars, logVars, svcVars, runVars, forkVars, thrown>>

\* Parse the config file if it exists, then branch on the positional tokens
ParseConfigFile ==
  /\ pc = "config"
  /\ Step("ParseConfigFile")
  /\ IF cfgFile.exists /\ ~ConfigFileParses(cfgFile)
     THEN /\ Throw
          /\ UNCHANGED <<vm, cfgRead>>
     ELSE /\ vm' = IF cfgFile.exists THEN StoreConfigFile(vm, cfgFile) ELSE vm
          /\ cfgRead' = cfgFile.exists
          /\ Goto(AfterConfig(vm'))
          /\ thrown' = thrown
  /\ UNCHANGED <<inVars, dataDirMade, fwdVars, logVars, svcVars, runVars, forkVars>>

(***************************************************************************)
(* main, lines 154-184: running a daemon command                           *)
(***************************************************************************)
\* ParseAddress, had the port not been checked
ParseAddressHostOnly ==
  /\ pc = "address"
  /\ Step("ParseAddress")
  /\ IF get_ip_int32_from_string(get_arg(vm, "rpc-bind-ip"))
     THEN Goto("command")
     ELSE Return(1)
  /\ UNCHANGED <<inVars, cfgVars, fwdVars, logVars, svcVars, runVars, forkVars, thrown>>

\* The bind address of the control channel is parsed: return 1 when it is bad
ParseAddress ==
  /\ pc = "address"
  /\ Step("ParseAddress")
  /\ IF /\ get_ip_int32_from_string(get_arg(vm, "rpc-bind-ip"))
        /\ get_xtype_from_string(get_arg(vm, "rpc-bind-port"))
     THEN Goto("command")
     ELSE Return(1)
  /\ UNCHANGED <<inVars, cfgVars, fwdVars, logVars, svcVars, runVars, forkVars, thrown>>

\* What happens to a command sent over the control channel
CommandOutcomes == {"accepted", "rejected", "unreachable", "exception"}

\* SendCommand, had the answer of the control channel been dropped
SendCommandIgnoringAnswer ==
  /\ pc = "command"
  /\ Step("SendCommand")
  /\ client' = TRUE
  /\ sent' = Append(sent, vm["daemon_command"].value)
  /\ \E outcome \in CommandOutcomes :
       /\ accepted' = outcome
       /\ IF outcome = "exception"
          THEN Throw
          ELSE /\ Return(0)
               /\ thrown' = thrown
  /\ UNCHANGED <<inVars, cfgVars, logVars, svcVars, runVars, forkVars>>

\* t_command_server rpc_commands{rpc_ip, rpc_port};
\* rpc_commands.process_command_vec(command) ? return 0 : return 1
SendCommand ==
  /\ pc = "command"
  /\ Step("SendCommand")
  /\ client' = TRUE
  /\ sent' = Append(sent, vm["daemon_command"].value)
  /\ \E outcome \in CommandOutcomes :
       /\ accepted' = outcome
       /\ IF outcome = "exception"
          THEN Throw
          ELSE /\ Return(IF outcome = "accepted" THEN 0 ELSE 1)
               /\ thrown' = thrown
  /\ UNCHANGED <<inVars, cfgVars, logVars, svcVars, runVars, forkVars>>

(***************************************************************************)
(* main, lines 186-231: logging                                            *)
(***************************************************************************)
\* LevelAfter, had an out-of-range level been clamped to the nearest bound
LevelAfterClamped(new_log_level) ==
  IF new_log_level < LOG_LEVEL_MIN THEN LOG_LEVEL_MIN
  ELSE IF new_log_level > LOG_LEVEL_MAX THEN LOG_LEVEL_MAX
  ELSE new_log_level

\* LevelAfter, had the range not been checked
LevelAfterUnchecked(new_log_level) == new_log_level

\* The level after lines 187-200, for the requested level
LevelAfter(new_log_level) ==
  IF new_log_level < LOG_LEVEL_MIN \/ new_log_level > LOG_LEVEL_MAX
  THEN LOG_LEVEL_0
  ELSE IF LOG_LEVEL_0 # new_log_level THEN new_log_level ELSE LOG_LEVEL_0

\* Start with log level 0, then set the requested one when it is in range
SetLogLevel ==
  /\ pc = "loglevel"
  /\ Step("SetLogLevel")
  /\ logLevel' = LevelAfter(IntOf(get_arg(vm, "log-level")))
  /\ levelSet' = TRUE
  /\ Goto("logfile")
  /\ UNCHANGED <<inVars, cfgVars, fwdVars, sinks, svcVars, runVars, forkVars, thrown>>

\* bool detach, bool win_service
detach == arg_present(vm, "detach")
win_service == arg_present(vm, "run-as-service")

\* LogFilePath, had the path been used whether or not its folder exists
LogFilePathNoFallback ==
  LET data_dir == PathOf(get_arg(vm, "data-dir"))
      given == PathOf(get_arg(vm, "log-file"))
  IN  IF is_relative(given) THEN PathJoin(data_dir, given) ELSE given

\* log_file_path of lines 208-221
LogFilePath ==
  LET data_dir == PathOf(get_arg(vm, "data-dir"))
      given == PathOf(get_arg(vm, "log-file"))
      log_file_path == IF is_relative(given) THEN PathJoin(data_dir, given) ELSE given
  IN  IF \/ ~has_parent_path(log_file_path)
         \/ parent_path(log_file_path) \notin ExistingDirs(dataDirMade)
      THEN get_default_log_file
      ELSE log_file_path

\* log_dir of lines 223-224
LogDir(log_file_path) ==
  IF has_parent_path(log_file_path)
  THEN parent_path(log_file_path)
  ELSE get_default_log_folder

\* add_logger(LOGGER_FILE, log_file_path.filename(), log_dir)
SetLogFile ==
  /\ pc = "logfile"
  /\ Step("SetLogFile")
  /\ sinks' = Append(sinks, [type |-> "LOGGER_FILE", file |-> filename(LogFilePath),
                             dir |-> LogDir(LogFilePath)])
  /\ Goto("console")
  /\ UNCHANGED <<inVars, cfgVars, fwdVars, logLevel, levelSet, svcVars, runVars,
                 forkVars, thrown>>

\* AddConsoleLogger, had the console been attached in every mode
AddConsoleLoggerAlways ==
  /\ pc = "console"
  /\ Step("AddConsoleLogger")
  /\ sinks' = Append(sinks, [type |-> "LOGGER_CONSOLE", file |-> "", dir |-> RootDir])
  /\ Goto("mode")
  /\ UNCHANGED <<inVars, cfgVars, fwdVars, logLevel, levelSet, svcVars, runVars,
                 forkVars, thrown>>

\* if (!detach && !win_service) add_logger(LOGGER_CONSOLE, NULL, NULL)
AddConsoleLogger ==
  /\ pc = "console"
  /\ Step("AddConsoleLogger")
  /\ sinks' = IF ~detach /\ ~win_service
              THEN Append(sinks, [type |-> "LOGGER_CONSOLE", file |-> "", dir |-> RootDir])
              ELSE sinks
  /\ Goto("mode")
  /\ UNCHANGED <<inVars, cfgVars, fwdVars, logLevel, levelSet, svcVars, runVars,
                 forkVars, thrown>>

(***************************************************************************)
(* The collaborators of the daemonization branches                         *)
(***************************************************************************)
\* How a run of the daemon ends: run() returns with the daemon's status, or
\* the construction or the run throws.
RunOutcomes == {"ok", "failed", "exception"}

\* windows::install_service: registers the name with the argument string;
\* fails when the name is registered already, and may fail otherwise.
install_service(reg, arguments, ok) ==
  IF ok /\ ~reg.registered
  THEN [registered |-> TRUE, args |-> arguments, started |-> FALSE]
  ELSE reg
\* The value install_service returns
install_service_result(reg, ok) == ok /\ ~reg.registered
\* The value start_service returns
start_service_result(reg, ok) == ok /\ reg.registered
\* windows::start_service: starts a registered service, or fails.
start_service(reg, ok) ==
  IF ok /\ reg.registered THEN [reg EXCEPT !.started = TRUE] ELSE reg
\* windows::uninstall_service: removes the registration.
uninstall_service(reg) == Unregistered

\* posix::fork: the parent exits with status 0 as it is, and the child goes on
\* with a copy of the parent's memory and open log files.
posix_fork(ran, map, loggers) ==
  [forked |-> TRUE, exitCode |-> <<0>>, runs |-> ran, vm |-> map, sinks |-> loggers]

(***************************************************************************)
(* main, lines 250-288: the daemonization branches                         *)
(***************************************************************************)
\* if (win_service): on WIN32, t_service_runner<t_daemon>::run(name, t_daemon{vm})
RunAsService ==
  /\ pc = "mode"
  /\ win_service
  /\ Step("RunAsService")
  /\ IF build = "WIN32"
     THEN \E outcome \in RunOutcomes :
            /\ runs' = Append(runs, "service_runner")
            /\ runCfg' = vm
            /\ runStatus' = outcome
            /\ IF outcome = "exception" THEN Throw ELSE Goto("return0") /\ thrown' = thrown
     ELSE Goto("return0") /\ UNCHANGED <<runVars, thrown>>
  /\ UNCHANGED <<inVars, cfgVars, fwdVars, logVars, svcVars, forkVars>>

\* ServiceArguments, had the marker not been added
ServiceArgumentsNoMarker(args) == get_argument_string(args)

\* std::string arguments = get_argument_string(argc, argv) + " --run-as-service"
ServiceArguments(args) == get_argument_string(args) \o <<SP, "--run-as-service">>

\* bool install = windows::install_service(WINDOWS_SERVICE_NAME, arguments)
InstallService ==
  /\ pc = "mode"
  /\ ~win_service /\ detach
  /\ build = "WIN32"
  /\ Step("InstallService")
  /\ \E ok \in BOOLEAN :
       /\ registry' = install_service(registry, ServiceArguments(argv), ok)
       /\ install' = install_service_result(registry, ok)
  /\ svcCalls' = Append(svcCalls, <<"install_service", WINDOWS_SERVICE_NAME>>)
  /\ Goto("start")
  /\ UNCHANGED <<inVars, cfgVars, fwdVars, logVars, start, runVars, forkVars, thrown>>

\* StartService, had the start not depended on the installation
StartServiceAlways ==
  /\ pc = "start"
  /\ Step("StartService")
  /\ \E ok \in BOOLEAN :
       /\ registry' = start_service(registry, ok)
       /\ start' = start_service_result(registry, ok)
  /\ svcCalls' = Append(svcCalls, <<"start_service", WINDOWS_SERVICE_NAME>>)
  /\ Goto("rollback")
  /\ UNCHANGED <<inVars, cfgVars, fwdVars, logVars, install, runVars, forkVars, thrown>>

\* if (install) start = windows::start_service(WINDOWS_SERVICE_NAME)
StartService ==
  /\ pc = "start"
  /\ Step("StartService")
  /\ IF install
     THEN /\ \E ok \in BOOLEAN :
               /\ registry' = start_service(registry, ok)
               /\ start' = start_service_result(registry, ok)
          /\ svcCalls' = Append(svcCalls, <<"start_service", WINDOWS_SERVICE_NAME>>)
     ELSE UNCHANGED <<registry, start, svcCalls>>
  /\ Goto("rollback")
  /\ UNCHANGED <<inVars, cfgVars, fwdVars, logVars, install, runVars, forkVars, thrown>>

\* Rollback, had the service been left registered
RollbackSkipped ==
  /\ pc = "rollback"
  /\ Step("Rollback")
  /\ Goto("return0")
  /\ UNCHANGED <<inVars, cfgVars, fwdVars, logVars, svcVars, runVars, forkVars, thrown>>

\* if (install && !start) windows::uninstall_service(WINDOWS_SERVICE_NAME)
Rollback ==
  /\ pc = "rollback"
  /\ Step("Rollback")
  /\ IF install /\ ~start
     THEN /\ registry' = uninstall_service(registry)
          /\ svcCalls' = Append(svcCalls, <<"uninstall_service", WINDOWS_SERVICE_NAME>>)
     ELSE UNCHANGED <<registry, svcCalls>>
  /\ Goto("return0")
  /\ UNCHANGED <<inVars, cfgVars, fwdVars, logVars, install, start, runVars, forkVars,
                 thrown>>

\* Fork, had posix::fork() not been called
ForkSkipped ==
  /\ pc = "mode"
  /\ ~win_service /\ detach
  /\ build = "POSIX"
  /\ Step("Fork")
  /\ Goto("forked")
  /\ UNCHANGED <<inVars, cfgVars, fwdVars, logVars, svcVars, runVars, forkVars, thrown>>

\* posix::fork(), which only the child returns from, or which throws
Fork ==
  /\ pc = "mode"
  /\ ~win_service /\ detach
  /\ build = "POSIX"
  /\ Step("Fork")
  /\ \E ok \in BOOLEAN :
       IF ok
       THEN /\ parent' = posix_fork(runs, vm, sinks)
            /\ role' = "child"
            /\ Goto("forked")
            /\ thrown' = thrown
       ELSE /\ Throw
            /\ UNCHANGED forkVars
  /\ UNCHANGED <<inVars, cfgVars, fwdVars, logVars, svcVars, runVars>>

\* daemonize::t_daemon{vm}.run(): the value of run() is not used
RunDaemon(how) ==
  \E outcome \in RunOutcomes :
    /\ runs' = Append(runs, how)
    /\ runCfg' = vm
    /\ runStatus' = outcome
    /\ IF outcome = "exception" THEN Throw ELSE Goto("return0") /\ thrown' = thrown

\* lines 278-279, after the fork
RunDetached ==
  /\ pc = "forked"
  /\ Step("RunDetached")
  /\ RunDaemon("detached")
  /\ UNCHANGED <<inVars, cfgVars, fwdVars, logVars, svcVars, forkVars>>

\* RunInteractive, had it not been the else of the detach branch
RunInteractiveAlways ==
  /\ pc = "mode"
  /\ ~win_service
  /\ Step("RunInteractive")
  /\ RunDaemon("interactive")
  /\ UNCHANGED <<inVars, cfgVars, fwdVars, logVars, svcVars, forkVars>>

\* lines 282-286: interactive
RunInteractive ==
  /\ pc = "mode"
  /\ ~win_service /\ ~detach
  /\ Step("RunInteractive")
  /\ RunDaemon("interactive")
  /\ UNCHANGED <<inVars, cfgVars, fwdVars, logVars, svcVars, forkVars>>

\* return 0; at the end of the try block
ReturnZero ==
  /\ pc = "return0"
  /\ Step("ReturnZero")
  /\ Return(0)
  /\ UNCHANGED <<inVars, cfgVars, fwdVars, logVars, svcVars, runVars, forkVars, thrown>>

\* CatchAll, had the handlers ended in return 0
CatchAllReturnsZero ==
  /\ pc = "catch"
  /\ Step("CatchAll")
  /\ Return(0)
  /\ UNCHANGED <<inVars, cfgVars, fwdVars, logVars, svcVars, runVars, forkVars, thrown>>

\* catch (...) { LOG_ERROR } return 1;
CatchAll ==
  /\ pc = "catch"
  /\ Step("CatchAll")
  /\ Return(1)
  /\ UNCHANGED <<inVars, cfgVars, fwdVars, logVars, svcVars, runVars, forkVars, thrown>>

(***************************************************************************)
(* The next invocation                                                     *)
(***************************************************************************)
\* A new process starts at the top of main.
StartProcess(args, byManager) ==
  /\ argv' = args
  /\ relaunched' = byManager
  /\ pc' = "parse"
  /\ logLevel' \in InitialLevels
  /\ UNCHANGED <<build, cfgFile, registry, cfgVars, exitCode, forkVars, fwdVars, levelSet,
                 sinks, install, start, svcCalls, runVars, thrown, trace>>

\* The user runs the executable.
Invoke ==
  /\ pc = "idle"
  /\ \E args \in Argvs : StartProcess(args, FALSE)

\* The service manager launches the registered, started service.
Relaunch ==
  /\ pc = "idle"
  /\ registry.registered /\ registry.started
  /\ StartProcess(SplitCommandLine(registry.args, <<>>), TRUE)

\* The process is gone; the disk and the service registry remain.
ProcessGone ==
  /\ pc = "exited"
  /\ pc' = "idle"
  /\ argv' = <<>>
  /\ relaunched' = FALSE
  /\ vm' = EmptyMap
  /\ exitCode' = <<>>
  /\ role' = "main"
  /\ parent' = NoParent
  /\ dataDirMade' = FALSE
  /\ cfgRead' = FALSE
  /\ client' = FALSE
  /\ sent' = <<>>
  /\ accepted' = "none"
  /\ logLevel' = LOG_LEVEL_0
  /\ levelSet' = FALSE
  /\ sinks' = <<>>
  /\ install' = FALSE
  /\ start' = FALSE
  /\ svcCalls' = <<>>
  /\ runs' = <<>>
  /\ runCfg' = EmptyMap
  /\ runStatus' = "none"
  /\ thrown' = FALSE
  /\ trace' = <<>>
  /\ UNCHANGED <<build, cfgFile, registry>>

Next ==
  \/ ParseArgs
  \/ PrintHelp
  \/ QuerySystemInfo
  \/ CreateDataDir
  \/ ParseConfigFile
  \/ ParseAddress
  \/ SendCommand
  \/ SetLogLevel
  \/ SetLogFile
  \/ AddConsoleLogger
  \/ RunAsService
  \/ InstallService
  \/ StartService
  \/ Rollback
  \/ Fork
  \/ RunDetached
  \/ RunInteractive
  \/ ReturnZero
  \/ CatchAll
  \/ Invoke
  \/ Relaunch
  \/ ProcessGone

Spec == Init /\ [][Next]_vars

(***************************************************************************)
(* What the properties speak about                                         *)
(***************************************************************************)
\* The positional command tokens of this invocation
Tokens == ValuesOf(argv, "daemon_command")
\* Whether argv names the option
Asked(key) == ValuesOf(argv, key) # <<>>
\* Whether main has taken the step
Took(name) == \E i \in 1..Len(trace) : trace[i] = name
\* Whether the configuration was resolved: the step ended without an exception
Resolved ==
  \E i \in 1..Len(trace) :
    /\ trace[i] = "ParseConfigFile"
    /\ IF i = Len(trace) THEN pc # "catch" ELSE trace[i + 1] # "CatchAll"
\* The service calls of this process, by name
CallNames == [i \in 1..Len(svcCalls) |-> svcCalls[i][1]]
\* No step of a daemon launch was taken
NoDaemonLaunch ==
  /\ ~levelSet
  /\ sinks = <<>>
  /\ ~parent.forked
  /\ svcCalls = <<>>
  /\ runs = <<>>

(***************************************************************************)
(* C1: when install_service succeeds and start_service fails, the process  *)
(* calls uninstall_service for the same service name before it exits and   *)
(* the service is not registered at exit; hence, after any sequence of     *)
(* invocations, a registered service is one whose start succeeded.         *)
(***************************************************************************)
C1_RollbackLeavesNoOrphan ==
  /\ (pc = "exited" /\ install /\ ~start) =>
       /\ svcCalls = << <<"install_service", WINDOWS_SERVICE_NAME>>,
                        <<"start_service", WINDOWS_SERVICE_NAME>>,
                        <<"uninstall_service", WINDOWS_SERVICE_NAME>> >>
       /\ ~registry.registered
  /\ (pc \in {"exited", "idle"} /\ registry.registered) => registry.started

C1_Witness ==
  /\ pc = "exited"
  /\ install /\ ~start
  /\ CallNames = <<"install_service", "start_service", "uninstall_service">>
  /\ ~registry.registered

(***************************************************************************)
(* C2: on the first-run service path the exit code is 0 only when both     *)
(* the installation and the start succeeded, and is 1 otherwise.           *)
(***************************************************************************)
C2_ServiceFailureExitsNonZero ==
  (pc = "exited" /\ Took("InstallService")) =>
    exitCode = (IF install /\ start THEN <<0>> ELSE <<1>>)

(***************************************************************************)
(* C3: in the foreground the exit code is the daemon's own termination     *)
(* status: 0 when the run ended well, non-zero when it failed.             *)
(***************************************************************************)
C3_ForegroundExitIsStatus ==
  (pc = "exited" /\ Took("RunInteractive")) =>
    (exitCode = <<0>> <=> runStatus = "ok")

(***************************************************************************)
(* C4: with positional tokens the process leaves through the command       *)
(* forwarder and takes no step of a daemon launch; without them no         *)
(* control-channel client is made and no command is sent.                  *)
(***************************************************************************)
C4_ForwardingExcludesLaunch ==
  /\ Tokens # <<>> => NoDaemonLaunch
  /\ (Tokens # <<>> /\ Resolved /\ pc = "exited") => Took("ParseAddress")
  /\ Tokens = <<>> => (~client /\ sent = <<>> /\ ~Took("ParseAddress"))

C4_Witness ==
  /\ pc = "exited"
  /\ Tokens # <<>>
  /\ Asked("detach")
  /\ sent # <<>>

(***************************************************************************)
(* C5: a process given the --run-as-service marker, with or without        *)
(* --detach, makes no install, start or uninstall call and runs the        *)
(* daemon under the service runner; the process the service manager        *)
(* launches carries the marker and so never installs again.                *)
(***************************************************************************)
C5_MarkerSkipsInstallation ==
  /\ Asked("run-as-service") => svcCalls = <<>>
  /\ relaunched => (Asked("run-as-service") /\ svcCalls = <<>>)
  /\ (Asked("run-as-service") /\ Took("RunAsService") /\ build = "WIN32") =>
       runs = <<"service_runner">>
  /\ (Asked("run-as-service") /\ build = "WIN32" /\ Took("AddConsoleLogger")
        /\ pc = "exited") => Took("RunAsService")

C5_Witness ==
  /\ pc = "exited"
  /\ relaunched
  /\ Asked("detach")
  /\ runs = <<"service_runner">>
  /\ svcCalls = <<>>

(***************************************************************************)
(* C6: the tokens are sent once, and the exit code is 0 exactly when the   *)
(* control channel accepted them; a refusal or a transport failure gives   *)
(* exit code 1.                                                            *)
(***************************************************************************)
C6_ExitCodeIsAcceptance ==
  /\ Len(sent) <= 1
  /\ (pc = "exited" /\ Took("SendCommand")) =>
       /\ sent = <<Tokens>>
       /\ exitCode = (IF accepted = "accepted" THEN <<0>> ELSE <<1>>)

C6_Witness ==
  /\ pc = "exited"
  /\ sent = <<Tokens>>
  /\ accepted = "rejected"
  /\ exitCode = <<1>>

(***************************************************************************)
(* C7: when the bind host is not four one-byte fields or the bind port is  *)
(* not a 16-bit number, the forwarder exits with code 1, makes no client   *)
(* and sends nothing.                                                      *)
(***************************************************************************)
BadHost ==
  \E i \in 1..Len(IpFields(get_arg(vm, "rpc-bind-ip"))) :
    IpFields(get_arg(vm, "rpc-bind-ip"))[i] > 255
BadPort == PortNumber(get_arg(vm, "rpc-bind-port")) > 65535

C7_BadAddressSendsNothing ==
  (Took("ParseAddress") /\ (BadHost \/ BadPort)) =>
    /\ pc = "exited"
    /\ exitCode = <<1>>
    /\ ~client
    /\ sent = <<>>

C7_Witness ==
  /\ pc = "exited"
  /\ Took("ParseAddress")
  /\ BadPort /\ ~BadHost
  /\ exitCode = <<1>>

(***************************************************************************)
(* C8: for every option key the resolved value is the command line's when  *)
(* argv sets the key, else the configuration file's when the file exists   *)
(* and sets it, else the default.                                          *)
(***************************************************************************)
\* The value the precedence rule gives key, the file counting for the keys in fileKeys
ByPrecedence(key, fileKeys) ==
  IF Asked(key) THEN ValuesOf(argv, key)
  ELSE IF key \in fileKeys /\ cfgFile.exists /\ FileSets(cfgFile, key)
       THEN <<FileValue(cfgFile, key)>>
       ELSE DefaultOf(key)

\* C8 as stated: the file counts for every key, once main has read it
C8_PrecedenceForEveryKey ==
  Took("ParseConfigFile") => \A key \in Keys : vm[key].value = ByPrecedence(key, Keys)

\* C8 as amended: the file counts for the keys of core_settings, and a file that
\* sets another key is a configuration error
C8_PrecedenceForSettings ==
  /\ Resolved => \A key \in Keys : vm[key].value = ByPrecedence(key, CoreSettings)
  /\ (Took("ParseConfigFile") /\ \E key \in Keys \ CoreSettings : FileSets(cfgFile, key))
       => (~Resolved /\ (pc = "exited" => exitCode = <<1>>))

C8_Witness ==
  /\ Resolved
  /\ cfgRead
  /\ FileSets(cfgFile, "log-level")
  /\ Asked("log-level")
  /\ vm["log-level"].value = <<"2">>
  /\ vm["log-file"].value = DefaultOf("log-file")

(***************************************************************************)
(* C9: with --detach on a posix build the parent of the fork exits at      *)
(* once with status 0 and never runs the daemon; the child runs it once,   *)
(* with the configuration and the log sinks of before the fork.            *)
(***************************************************************************)
C9_ParentExitsChildRuns ==
  /\ parent.forked =>
       /\ role = "child"
       /\ parent.exitCode = <<0>>
       /\ parent.runs = <<>>
       /\ build = "POSIX" /\ Asked("detach") /\ Tokens = <<>>
  /\ (pc = "forked" \/ Took("RunDetached")) => (role = "child" /\ parent.forked)
  /\ Took("RunDetached") =>
       /\ runs = <<"detached">>
       /\ runCfg = parent.vm
       /\ sinks = parent.sinks
  /\ (pc = "exited" /\ role = "child" /\ ~thrown) => Took("RunDetached")

C9_Witness ==
  /\ pc = "exited"
  /\ role = "child"
  /\ parent.exitCode = <<0>>
  /\ runs = <<"detached">>
  /\ sinks # <<>>
  /\ exitCode = <<0>>

(***************************************************************************)
(* C10: when help or a system query is asked for and argv parses, the      *)
(* process exits 0 before the configuration is resolved, whatever else     *)
(* argv holds; on every other path the steps come in the order             *)
(* ResolveConfig, then the command forwarder when there are tokens, else   *)
(* InitLogging and then exactly one daemonization branch.                  *)
(***************************************************************************)
\* The place of a step in the sequence of section 4.5
Rank(name) ==
  CASE name = "ParseArgs" -> 1
    [] name = "PrintHelp" -> 2
    [] name = "QuerySystemInfo" -> 3
    [] name = "CreateDataDir" -> 4
    [] name = "ParseConfigFile" -> 5
    [] name \in {"ParseAddress", "SetLogLevel"} -> 6
    [] name \in {"SendCommand", "SetLogFile"} -> 7
    [] name = "AddConsoleLogger" -> 8
    [] name \in {"RunAsService", "InstallService", "Fork", "RunInteractive"} -> 9
    [] name \in {"StartService", "RunDetached"} -> 10
    [] name = "Rollback" -> 11
    [] name \in {"ReturnZero", "CatchAll"} -> 12
ForwarderSteps == {"ParseAddress", "SendCommand"}
LoggingSteps == {"SetLogLevel", "SetLogFile", "AddConsoleLogger"}
Branches == {"RunAsService", "InstallService", "Fork", "RunInteractive"}
BranchSteps == Branches \cup {"StartService", "Rollback", "RunDetached"}
StepsTaken == {trace[i] : i \in 1..Len(trace)}

C10_EntrySequencing ==
  /\ ((Asked("help") \/ Asked("os-version")) /\ ArgvParses(argv)) =>
       /\ ~dataDirMade /\ ~cfgRead /\ ~Took("CreateDataDir") /\ ~Took("ParseConfigFile")
       /\ ~client /\ sent = <<>>
       /\ NoDaemonLaunch
       /\ pc = "exited" => exitCode = <<0>>
  /\ \A i \in 1..Len(trace) : \A j \in 1..Len(trace) :
       i < j => Rank(trace[i]) < Rank(trace[j])
  /\ (StepsTaken \cap (ForwarderSteps \cup LoggingSteps \cup BranchSteps) # {}) => Resolved
  /\ (StepsTaken \cap ForwarderSteps # {}) =>
       (Tokens # <<>> /\ StepsTaken \cap (LoggingSteps \cup BranchSteps) = {})
  /\ (StepsTaken \cap BranchSteps # {}) => (Tokens = <<>> /\ LoggingSteps \subseteq StepsTaken)
  /\ Cardinality(StepsTaken \cap Branches) <= 1
  /\ (pc = "exited" /\ Took("AddConsoleLogger")) => Cardinality(StepsTaken \cap Branches) = 1

C10_Witness ==
  /\ pc = "exited"
  /\ Asked("help")
  /\ Tokens # <<>>
  /\ exitCode = <<0>>
  /\ ~dataDirMade

(***************************************************************************)
(* C11: a requested log level outside [LOG_LEVEL_MIN, LOG_LEVEL_MAX] is    *)
(* never applied and never clamped to a bound: logging initialization      *)
(* leaves the effective level at its prior value.                          *)
(***************************************************************************)
\* The level this invocation asks for, once the configuration is resolved
Requested == IntOf(get_arg(vm, "log-level"))
OutOfRange == Requested < LOG_LEVEL_MIN \/ Requested > LOG_LEVEL_MAX

\* C11 as stated: the step that initializes the level leaves the level the
\* logger held before it
C11_OutOfRangeKeepsPriorLevel ==
  [][(pc = "loglevel" /\ OutOfRange) => logLevel' = logLevel]_vars

\* C11 as amended: the level is LOG_LEVEL_0, which line 187 sets before the
\* request is read, and neither the request nor a bound
C11_OutOfRangeLeavesLevelZero ==
  (Took("SetLogLevel") /\ OutOfRange) =>
    /\ logLevel = LOG_LEVEL_0
    /\ logLevel # Requested
    /\ logLevel \notin {LOG_LEVEL_MIN, LOG_LEVEL_MAX}

C11_Witness ==
  /\ Took("SetLogLevel")
  /\ Requested = LOG_LEVEL_MAX + 1
  /\ logLevel = LOG_LEVEL_0

(***************************************************************************)
(* C12: on every daemonization path one file sink is attached, whatever    *)
(* the mode, and a console sink is attached exactly when neither --detach  *)
(* nor the --run-as-service marker is present.                             *)
(***************************************************************************)
SinksOfType(type) == {i \in 1..Len(sinks) : sinks[i].type = type}

C12_FileSinkAlwaysConsoleWhenAttached ==
  /\ Cardinality(SinksOfType("LOGGER_FILE")) <= 1
  /\ Cardinality(SinksOfType("LOGGER_CONSOLE")) <= 1
  /\ (pc = "mode" \/ StepsTaken \cap BranchSteps # {}) =>
       /\ Cardinality(SinksOfType("LOGGER_FILE")) = 1
       /\ SinksOfType("LOGGER_CONSOLE") # {}
            <=> (~Asked("detach") /\ ~Asked("run-as-service"))

C12_Witness ==
  /\ pc = "exited"
  /\ Took("RunAsService")
  /\ Asked("run-as-service") /\ ~Asked("detach")
  /\ Cardinality(SinksOfType("LOGGER_FILE")) = 1
  /\ SinksOfType("LOGGER_CONSOLE") = {}

(***************************************************************************)
(* C13: when argv does not parse, or the configuration file exists and     *)
(* does not parse, the invocation ends with exit code 1 before any         *)
(* service action: nothing is forwarded, logged, forked, installed or run. *)
(***************************************************************************)
ArgvError == pc # "idle" /\ ~ArgvParses(argv)
ConfigFileError ==
  /\ Took("ParseConfigFile")
  /\ cfgFile.exists
  /\ \/ ~cfgFile.wellFormed
     \/ \E i \in 1..Len(cfgFile.lines) : cfgFile.lines[i].key \notin CoreSettings

C13_ConfigErrorEndsBeforeService ==
  (ArgvError \/ ConfigFileError) =>
    /\ NoDaemonLaunch
    /\ ~client /\ sent = <<>>
    /\ pc \in {"parse", "catch", "exited"}
    /\ pc = "exited" => exitCode = <<1>>

C13_Witness ==
  /\ pc = "exited"
  /\ ConfigFileError
  /\ ~cfgFile.wellFormed
  /\ Asked("detach")
  /\ exitCode = <<1>>

(***************************************************************************)
(* C14: an exception raised at any step of main is caught at the outermost *)
(* boundary and the process returns 1; no path on which an exception was   *)
(* raised returns 0.                                                       *)
(***************************************************************************)
C14_ExceptionReturnsOne ==
  /\ thrown => pc \in {"catch", "exited"}
  /\ (thrown /\ pc = "exited") => (exitCode = <<1>> /\ Took("CatchAll"))
  /\ pc = "catch" => thrown

C14_Witness ==
  /\ pc = "exited"
  /\ thrown
  /\ Took("Fork") /\ ~parent.forked
  /\ exitCode = <<1>>

(***************************************************************************)
(* C15: the log path is the --log-file value, under the data directory     *)
(* when it is relative; when it has no parent or its parent does not       *)
(* exist, the default log file and folder replace it, so the folder given  *)
(* to the file sink always exists.                                         *)
(***************************************************************************)
\* The path asked for: relative paths are taken from the data directory
CandidateLogPath ==
  IF PathOf(get_arg(vm, "log-file")).abs
  THEN PathOf(get_arg(vm, "log-file"))
  ELSE [abs |-> TRUE,
        parts |-> PathOf(get_arg(vm, "data-dir")).parts \o PathOf(get_arg(vm, "log-file")).parts]
\* The folder of the path asked for
CandidateFolder ==
  [abs |-> TRUE, parts |-> SubSeq(CandidateLogPath.parts, 1, Len(CandidateLogPath.parts) - 1)]
OnDisk == ExistingDirs(dataDirMade)

C15_LogFolderExists ==
  Took("SetLogFile") =>
    /\ sinks[1].type = "LOGGER_FILE"
    /\ sinks[1].dir \in OnDisk
    /\ IF CandidateFolder \in OnDisk
       THEN /\ sinks[1].dir = CandidateFolder
            /\ sinks[1].file = CandidateLogPath.parts[Len(CandidateLogPath.parts)]
       ELSE /\ sinks[1].dir = get_default_log_folder
            /\ sinks[1].file = get_default_log_file.parts[1]
    /\ pc = "console" \/ Took("AddConsoleLogger")

C15_Witness ==
  /\ Took("SetLogFile")
  /\ get_arg(vm, "log-file") = "/missing/b.log"
  /\ sinks[1].dir = get_default_log_folder
  /\ sinks[1].file = "bitmonerod.log"

(***************************************************************************)
(* C16: start_service is called only after install_service succeeded, and  *)
(* uninstall_service only after this invocation's install succeeded and    *)
(* its start failed; when the install fails, neither is called and the     *)
(* registration found, with its running state, is left as it was.          *)
(***************************************************************************)
Called(name) == \E i \in 1..Len(svcCalls) : svcCalls[i][1] = name

C16_CallsFollowInstall ==
  /\ Called("start_service") => (install /\ Called("install_service"))
  /\ Called("uninstall_service") => (install /\ ~start /\ Called("start_service"))
  /\ (Took("InstallService") /\ ~install) => CallNames = <<"install_service">>

\* A failed install, and the steps after it, leave the registry alone
C16_FailedInstallKeepsRegistry ==
  /\ [](C16_CallsFollowInstall)
  /\ [][((pc = "mode" /\ pc' = "start" /\ ~install')
          \/ (pc \in {"start", "rollback", "return0"} /\ ~install))
        => registry' = registry]_vars

C16_Witness ==
  /\ pc = "exited"
  /\ Took("InstallService") /\ Took("Rollback")
  /\ ~install
  /\ registry.registered /\ registry.started
  /\ CallNames = <<"install_service">>

(***************************************************************************)
(* C17: a requested level inside [LOG_LEVEL_MIN, LOG_LEVEL_MAX] is the     *)
(* effective level after logging initialization; and whatever level is     *)
(* requested, the effective level lies in that range when a daemonization  *)
(* branch is entered.                                                      *)
(***************************************************************************)
LevelRange == LOG_LEVEL_MIN..LOG_LEVEL_MAX

C17_LevelInRange ==
  /\ (Took("SetLogLevel") /\ Requested \in LevelRange) => logLevel = Requested
  /\ (pc = "mode" \/ StepsTaken \cap BranchSteps # {}) => logLevel \in LevelRange

C17_Witness ==
  /\ pc = "mode"
  /\ Requested = 3
  /\ ~Asked("log-level")
  /\ logLevel = 3

(***************************************************************************)
(* C18: on every daemonization path the log level is set and the file      *)
(* sink attached before the first action of the mode: the fork, the        *)
(* install_service call, the start of the service runner, the run().       *)
(***************************************************************************)
\* The place of the step in the trace; 0 when it was not taken
PlaceOf(name) ==
  IF Took(name) THEN CHOOSE i \in 1..Len(trace) : trace[i] = name ELSE 0

C18_LoggingBeforeMode ==
  /\ \A b \in Branches :
       Took(b) => /\ 0 < PlaceOf("SetLogLevel")
                  /\ PlaceOf("SetLogLevel") < PlaceOf("SetLogFile")
                  /\ PlaceOf("SetLogFile") < PlaceOf(b)
  /\ (pc = "mode" \/ StepsTaken \cap Branches # {}) =>
       (levelSet /\ SinksOfType("LOGGER_FILE") # {})
  /\ parent.forked => (parent.sinks # <<>> /\ parent.sinks[1].type = "LOGGER_FILE")
  /\ (svcCalls # <<>> \/ runs # <<>>) => (levelSet /\ SinksOfType("LOGGER_FILE") # {})

C18_Witness ==
  /\ pc = "start"
  /\ svcCalls = << <<"install_service", WINDOWS_SERVICE_NAME>> >>
  /\ levelSet
  /\ SinksOfType("LOGGER_FILE") # {}

(***************************************************************************)
(* C19: a process runs the daemon at most once, and the process that       *)
(* installs the service never runs it: the daemon is run only in the       *)
(* foreground, by the child of the posix fork, or under the service        *)
(* runner by a process that carries the marker.                            *)
(***************************************************************************)
C19_OneRunNeverByInstaller ==
  /\ Len(runs) <= 1
  /\ Took("InstallService") => (runs = <<>> /\ runStatus = "none")
  /\ runs # <<>> =>
       \/ /\ runs = <<"interactive">>
          /\ role = "main"
          /\ ~Asked("detach") /\ ~Asked("run-as-service") /\ Tokens = <<>>
       \/ /\ runs = <<"detached">>
          /\ role = "child" /\ build = "POSIX"
          /\ Asked("detach")
       \/ /\ runs = <<"service_runner">>
          /\ role = "main" /\ build = "WIN32"
          /\ Asked("run-as-service")

C19_Witness ==
  /\ pc = "exited"
  /\ Took("InstallService")
  /\ install /\ start
  /\ runs = <<>>
  /\ exitCode = <<0>>

====
